---------------------------- MODULE Spec2Model ----------------------------
(***************************************************************************)
(* Model of the retail analytics script (src/retail_correlation_analysis.py)*)
(* RetailAnalytics and its main(): the SQL query of load_data, the derived *)
(* metrics, the segment filters, the grouped aggregates and the top-level  *)
(* run.                                                                    *)
(*                                                                         *)
(* Numbers.  TLC has integers only, so every decimal is kept as an integer *)
(* at a fixed scale, and every quotient that is compared is kept as a      *)
(* numerator/denominator pair:                                             *)
(*   price, gross_revenue      hundredths   (DECIMAL(10,2))                *)
(*   net_revenue               1/10^4                                      *)
(*   turnover_ratio            1/10^4       (MySQL INT / INT: scale 4)     *)
(*   profit_margin             hundredths   (the MySQL quotient is exact)  *)
(*   efficiency_score          1/10^4       (turnover * margin * 100)      *)
(*   inventory_days            [num, den] = 300*inv / (10*units+1)         *)
(* Binary floating point.  pandas holds these columns as doubles; the      *)
(* model holds the exact decimals they are parsed from.  The two can show  *)
(* a different result in two places only, and there the model allows every *)
(* result the doubles can give: a .round(k) of a value that lies halfway   *)
(* between two results (RoundOutcomes), and a comparison of two           *)
(* efficiency_score values that are equal as decimals and computed from    *)
(* different factors (LastBits).                                           *)
(***************************************************************************)
EXTENDS Integers, Sequences, FiniteSets, TLC

VARIABLES
    table,        \* rows of the MySQL table retail_inventory (the input)
    df,           \* self.df: the rows of the DataFrame
    df_is_none,   \* self.df is None
    conn,         \* the connection of load_data: "none", "open", "closed"
    pc,           \* position of the caller: main(), or the caller of SpecFrame
    executed,     \* the analysis steps that have been called, in order
    failed,       \* the analysis steps that raised
    corr_tests,   \* the pairs whose significance test was printed
    problems,     \* the dict returned by identify_problem_areas
    seasonal,     \* the tables printed by seasonal_analysis
    recs,         \* what generate_strategic_recommendations computed
    summary,      \* what generate_executive_summary printed
    cut_in,       \* pd.cut applied to one value: the value, in 1/CutDen
    cut_out,      \* ... and the label it got
    segments,     \* the DataFrames returned by identify_problem_areas: the
                  \* rows each segment holds and the block holding its data
    corr_in,      \* _interpret_correlation applied to one coefficient: the
                  \* coefficient, in 1/CorrDen
    corr_out,     \* ... and the label it returned
    p_pc,         \* position of process_retail_data
    p_conn,       \* self.connection of the processor: "none", "open", "closed"
    p_steps,      \* the steps process_retail_data has called, in order
    p_ok,         \* the steps that succeeded
    p_result,     \* what process_retail_data is about to return
    p_returned,   \* how process_retail_data ended: "none" (not yet),
                  \* "True", "False" (returned), "raised"
    p_total,      \* total_records: the number of rows of the CSV's DataFrame
    p_batch_size, \* batch_size of insert_data_batch
    p_start,      \* start_idx of the batch loop
    p_batch,      \* batch_data: the positions of the rows of the batch
    p_sent,       \* the batches handed to executemany, in order
    p_pending,    \* rows inserted in the open transaction, not committed
    p_committed,  \* rows of the input the table holds, committed
    p_inserted,   \* inserted_records
    p_insert,     \* how insert_data_batch ended: "none", "True", "False"
                  \* (returned), "raised" (an exception left it)
    p_error,      \* the exception raised in the try of insert_data_batch:
                  \* "none", "mysql_error", "other_exception"
    p_rollback,   \* how rollback() of line 168 ended: "none" (not
                  \* called), "ok", "raised"
    p_report,     \* how generate_summary_report ended: "none", "ok",
                  \* "mysql_error" (caught in it), "other_exception"
    p_close       \* how close_connection ended: "none", "ok",
                  \* "cursor_raised", "connection_raised"

analyticsVars == <<table, df, df_is_none, conn, pc, executed, failed,
                   corr_tests, problems, seasonal, recs, summary, cut_in,
                   cut_out, segments>>

interpVars == <<corr_in, corr_out>>

procVars == <<p_pc, p_conn, p_steps, p_ok, p_result, p_returned, p_total,
              p_batch_size, p_start, p_batch, p_sent, p_pending, p_committed,
              p_inserted, p_insert, p_error, p_rollback, p_report, p_close>>

vars == <<table, df, df_is_none, conn, pc, executed, failed, corr_tests,
          problems, seasonal, recs, summary, cut_in, cut_out, segments,
          corr_in, corr_out, p_pc, p_conn, p_steps, p_ok, p_result,
          p_returned, p_total, p_batch_size, p_start, p_batch, p_sent,
          p_pending, p_committed, p_inserted, p_insert, p_error, p_rollback,
          p_report, p_close>>

-----------------------------------------------------------------------------
(* Bounds of the model.                                                    *)

MaxRows == 3        \* rows of the table in Spec
MaxGroupRows == 2   \* rows of the table in SpecGroup
MaxInv == 6         \* inventory_level ranges over 0..MaxInv in SpecRow
MaxUnits == 8       \* units_sold ranges over 0..MaxUnits in SpecRow
BigInv == 20001     \* one large inventory_level of SpecRow
EdgeInv == 2007     \* an inventory_level of SpecRow whose largest turnover
                    \* below 0.3 is within 0.00005 of 0.3
MaxCorrRows == 11   \* rows of the table in SpecCorr
MaxFrameRows == 2   \* rows of the table in SpecFrame
MaxCalls == 4       \* calls of analyses the caller of SpecFrame makes
MaxCutNum == 200    \* cut_in ranges over 0..MaxCutNum in SpecCut
CutDen == 2         \* cut_in counts halves of a day
CorrDen == 100      \* corr_in ranges over -CorrDen..CorrDen, in 1/CorrDen
MaxCsvRows == 5     \* rows of the CSV's DataFrame in SpecProc and SpecInsert
MaxBatchSize == 3   \* batch_size ranges over 1..MaxBatchSize in SpecInsert

-----------------------------------------------------------------------------
(* The group keys, each in the sorted order groupby gives its groups.      *)

Categories == <<"Clothing", "Electronics">>
Regions == <<"East", "West">>
Seasons == <<"Autumn", "Winter">>

Range(s) == {s[i] : i \in DOMAIN s}

NaN == [nan |-> TRUE, num |-> 0, den |-> 1]
Num(n, d) == [nan |-> FALSE, num |-> n, den |-> d]

Abs(x) == IF x < 0 THEN -x ELSE x

\* a / b rounded half away from zero to an integer (b > 0): the rounding of
\* MySQL's exact-value (DECIMAL) division.
DecDiv(a, b) ==
    IF a >= 0 THEN (2 * a + b) \div (2 * b)
    ELSE -((2 * (-a) + b) \div (2 * b))

\* a / b rounded half to even to an integer (b > 0): numpy's rint, which
\* DataFrame.round(k) applies to the value scaled by 10^k.
RoundHalfEven(a, b) ==
    LET q == a \div b
        r == a % b
    IN  IF 2 * r < b THEN q
        ELSE IF 2 * r > b THEN q + 1
        ELSE IF q % 2 = 0 THEN q ELSE q + 1

\* Whether the decimal x/10^4 is a multiple of 1/16: a double holds such a
\* value exactly, and holds every other value of this scale with an error in
\* its last bit.
IsDouble(x) == x % 625 = 0

\* The results .round(k) can give for the double that stands for a / b, b
\* being the scale of a over 10^k.  numpy multiplies the double by 10^k and
\* rounds half to even.  Off a tie the error of the double does not show.
\* On a tie the result is the even neighbour when the double is exact, and
\* either neighbour when it is not: the double then lies a last bit above or
\* below the tie.
RoundOutcomes(a, b, exact) ==
    IF 2 * (a % b) = b /\ ~exact
    THEN {a \div b, (a \div b) + 1}
    ELSE {RoundHalfEven(a, b)}

\* the sequences that take their n-th element from the n-th set of S
Choices(S) ==
    {f \in [DOMAIN S -> UNION {S[n] : n \in DOMAIN S}] :
        \A n \in DOMAIN S : f[n] \in S[n]}

Min(a, b) == IF a < b THEN a ELSE b

\* Series.head(n): the first n elements, all of them if there are fewer
Head_n(s, n) == SubSeq(s, 1, Min(n, Len(s)))

-----------------------------------------------------------------------------
(* load_data: the SELECT of lines 50-63.                                   *)

\* WHERE inventory_level > 0 AND price > 0
SqlWhere(r) == r.inventory_level > 0 /\ r.price > 0

\* (1 - discount / 100.0), in hundredths
DiscountFactor(r) == 100 - r.discount

\* (units_sold * price) as gross_revenue, in hundredths
GrossRevenue(r) == r.units_sold * r.price

\* (units_sold * price * (1 - discount / 100.0)) as net_revenue, in 1/10^4
NetRevenue(r) == r.units_sold * r.price * DiscountFactor(r)

\* (inventory_level - units_sold) as overstock_units
OverstockUnits(r) == r.inventory_level - r.units_sold

\* CASE WHEN inventory_level > 0 THEN units_sold / inventory_level ELSE 0 END
\* INT / INT is MySQL's exact-value division: the quotient has scale 4
\* (div_precision_increment) and is rounded to it.  In 1/10^4.
TurnoverRatio(r) ==
    IF r.inventory_level > 0
    THEN DecDiv(r.units_sold * 10000, r.inventory_level)
    ELSE 0

\* A faulty variant of ProfitMargin: the guard units_sold > 0 left out, the
\* division by a zero gross revenue giving 1.
ProfitMarginUnguarded(r) ==
    IF GrossRevenue(r) > 0 THEN DecDiv(NetRevenue(r), GrossRevenue(r)) ELSE 100

\* CASE WHEN units_sold > 0 THEN net / gross ELSE 0 END, in hundredths
\* (net is in 1/10^4 and gross in hundredths, so net / gross is in
\* hundredths).
ProfitMargin(r) ==
    IF r.units_sold > 0
    THEN DecDiv(NetRevenue(r), GrossRevenue(r))
    ELSE 0

\* One row of the result set.
SqlRow(r) ==
    [inventory_level |-> r.inventory_level,
     units_sold      |-> r.units_sold,
     price           |-> r.price,
     discount        |-> r.discount,
     category        |-> r.category,
     region          |-> r.region,
     seasonality     |-> r.seasonality,
     gross_revenue   |-> GrossRevenue(r),
     net_revenue     |-> NetRevenue(r),
     overstock_units |-> OverstockUnits(r),
     turnover_ratio  |-> TurnoverRatio(r),
     profit_margin   |-> ProfitMargin(r)]

\* The result set of the query: the rows that pass the WHERE, in table order.
SqlSelect(t) ==
    LET kept == SelectSeq(t, SqlWhere)
    IN  [i \in 1..Len(kept) |-> SqlRow(kept[i])]

-----------------------------------------------------------------------------
(* calculate_inventory_metrics, lines 86-100.                              *)

\* A faulty variant of InventoryDays: the 0.1 of the divisor left out, so that
\* a row without sales divides by zero.
InventoryDaysNoOffset(r) ==
    [num |-> 300 * r.inventory_level, den |-> 10 * r.units_sold]

\* A faulty variant of InventoryDays: 1 added to units_sold in place of 0.1.
InventoryDaysPlusOne(r) ==
    [num |-> 300 * r.inventory_level, den |-> 10 * r.units_sold + 10]

\* inventory_level / (units_sold + 0.1) * 30
InventoryDays(r) == [num |-> 300 * r.inventory_level, den |-> 10 * r.units_sold + 1]

\* net_revenue / (units_sold + 0.1), in 1/10^3
ProfitPerUnit(r) == [num |-> r.net_revenue, den |-> 10 * r.units_sold + 1]

\* (turnover_ratio * profit_margin) * 100, in 1/10^4
EfficiencyScore(r) == r.turnover_ratio * r.profit_margin

\* bins=[0, 15, 30, 60, float('inf')]: the finite edges
CutBins == <<0, 15, 30, 60>>
CutLabels == <<"Fast Moving", "Normal", "Slow Moving", "Dead Stock">>

\* A faulty variant of Cut: pd.cut(..., right=False), bins closed on the left.
CutLeftClosed(num, den) ==
    LET id == Cardinality({i \in DOMAIN CutBins : CutBins[i] * den <= num})
    IN  IF id = 0 THEN "NaN" ELSE CutLabels[id]

\* pd.cut with its default right=True, include_lowest=False: the value
\* num/den gets the label of the bin (lo, hi] it lies in, found as
\* bins.searchsorted(x, side='left'); a value in no bin gets NaN.
Cut(num, den) ==
    LET id == Cardinality({i \in DOMAIN CutBins : CutBins[i] * den < num})
    IN  IF id = 0 THEN "NaN" ELSE CutLabels[id]

MetricsRow(r) ==
    LET days == InventoryDays(r)
    IN  [inventory_level    |-> r.inventory_level,
         units_sold         |-> r.units_sold,
         price              |-> r.price,
         discount           |-> r.discount,
         category           |-> r.category,
         region             |-> r.region,
         seasonality        |-> r.seasonality,
         gross_revenue      |-> r.gross_revenue,
         net_revenue        |-> r.net_revenue,
         overstock_units    |-> r.overstock_units,
         turnover_ratio     |-> r.turnover_ratio,
         profit_margin      |-> r.profit_margin,
         inventory_days     |-> days,
         profit_per_unit    |-> ProfitPerUnit(r),
         efficiency_score   |-> EfficiencyScore(r),
         inventory_category |-> Cut(days.num, days.den)]

-----------------------------------------------------------------------------
(* Series helpers of pandas used by the analyses.                          *)

RECURSIVE SumSeq(_)
SumSeq(s) == IF s = <<>> THEN 0 ELSE Head(s) + SumSeq(Tail(s))

\* d[idxs][f] as a sequence of values
Column(d, idxs, f) == [j \in 1..Len(idxs) |-> d[idxs[j]][f]]

AllRows(d) == [i \in 1..Len(d) |-> i]

\* A faulty variant of Quantile: the order statistics taken from the column in
\* row order, without sorting it.
QuantileUnsorted(vals, qnum, qden) ==
    IF Len(vals) = 0 THEN NaN
    ELSE LET lo == ((Len(vals) - 1) * qnum) \div qden
             r  == ((Len(vals) - 1) * qnum) % qden
         IN  IF r = 0 THEN Num(vals[lo + 1], 1)
             ELSE Num(qden * vals[lo + 1] + r * (vals[lo + 2] - vals[lo + 1]), qden)

\* Series.quantile(qnum/qden), interpolation='linear': with the values sorted
\* and h = (n-1)*q, the value at floor(h) plus the fraction of h times the
\* step to the next value.  An empty Series gives NaN and raises nothing.
Quantile(vals, qnum, qden) ==
    IF Len(vals) = 0 THEN NaN
    ELSE LET s  == SortSeq(vals, LAMBDA a, b : a < b)
             lo == ((Len(s) - 1) * qnum) \div qden
             r  == ((Len(s) - 1) * qnum) % qden
         IN  IF r = 0 THEN Num(s[lo + 1], 1)
             ELSE Num(qden * s[lo + 1] + r * (s[lo + 2] - s[lo + 1]), qden)

\* x > q for an integer x (overstock_units) and a quantile q of its column;
\* a comparison with NaN is False.  The doubles of integers are exact, and a
\* quantile interpolated between two different integers equals no value of
\* the column: the doubles compare as the decimals do.
GtQ(x, q) == ~q.nan /\ x * q.den > q.num

\* The key columns of the group-bys
ByCategory == <<"category">>
ByRegion == <<"region">>
BySeason == <<"seasonality">>
BySeasonCategory == <<"seasonality", "category">>

\* the values of a key column, in sorted order
KeyValues(col) ==
    CASE col = "category" -> Categories
      [] col = "region" -> Regions
      [] col = "seasonality" -> Seasons

\* every key tuple of groupby(by), in sorted order
SortedKeys(by) ==
    IF Len(by) = 1
    THEN [n \in 1..Len(KeyValues(by[1])) |-> <<KeyValues(by[1])[n]>>]
    ELSE [n \in 1..(Len(KeyValues(by[1])) * Len(KeyValues(by[2]))) |->
            <<KeyValues(by[1])[((n - 1) \div Len(KeyValues(by[2]))) + 1],
              KeyValues(by[2])[((n - 1) % Len(KeyValues(by[2]))) + 1]>>]

\* the group key of row r
KeyOf(r, by) == [j \in 1..Len(by) |-> r[by[j]]]

\* groupby(by): the keys that occur among the rows idxs, in sorted order
GroupKeys(d, idxs, by) ==
    SelectSeq(SortedKeys(by), LAMBDA k : \E j \in DOMAIN idxs : KeyOf(d[idxs[j]], by) = k)

\* A faulty variant of GroupRows: the rows matched on the first key column only.
GroupRowsFirstKey(d, idxs, by, k) ==
    SelectSeq(idxs, LAMBDA i : d[i][by[1]] = k[1])

\* ... and the rows of the group with key k, in row order
GroupRows(d, idxs, by, k) == SelectSeq(idxs, LAMBDA i : KeyOf(d[i], by) = k)

\* Whether the double of the sum of the net_revenue values vals is exact: it
\* is when every value added is.
SumExact(vals) == \A j \in DOMAIN vals : IsDouble(vals[j])

\* .round(2) and .round(3) of the sum of the net_revenue values vals
\* (1/10^4): the results it can give, in hundredths and in thousandths
Round2(vals) == RoundOutcomes(SumSeq(vals), 100, SumExact(vals))
Round3(vals) == RoundOutcomes(SumSeq(vals), 10, SumExact(vals))

\* Whether the double of efficiency_score of row r is exact: a zero factor
\* gives 0.0, and factors that are exact doubles give an exact product.
ExactScore(r) ==
    \/ r.efficiency_score = 0
    \/ IsDouble(r.turnover_ratio) /\ r.profit_margin % 25 = 0

\* The double of efficiency_score of row r, as far as the model tells
\* doubles apart: rows with the same decimal score hold the same double when
\* the score is exact in both or is computed from the same factors.  (An
\* inexact score has no zero factor.)
ScoreClass(r) ==
    IF ExactScore(r) THEN <<r.efficiency_score, 0, 0>>
    ELSE <<r.efficiency_score, r.turnover_ratio, r.profit_margin>>

\* the doubles of d that share their decimal score with another double of d
AmbiguousScores(d) ==
    {ScoreClass(d[i]) : i \in {i \in DOMAIN d :
        \E j \in DOMAIN d : /\ d[j].efficiency_score = d[i].efficiency_score
                             /\ ScoreClass(d[j]) # ScoreClass(d[i])}}

\* The ways the doubles of d that share a decimal score can lie to each
\* other: each gets a rank, and of two with the same decimal the one of
\* lower rank is the smaller double; equal ranks are equal doubles.  The
\* product of the factors decides the last bit of each, which the model does
\* not compute: every ranking is possible.  A table without such doubles has
\* the one empty ranking.
LastBits(d) ==
    [AmbiguousScores(d) -> 0..(Cardinality(AmbiguousScores(d)) - 1)]

\* the rank of the double of row r
LastBit(r, bits) ==
    IF ScoreClass(r) \in DOMAIN bits THEN bits[ScoreClass(r)] ELSE 0

\* efficiency_score of r1 < efficiency_score of r2, as doubles
ScoreLess(r1, r2, bits) ==
    \/ r1.efficiency_score < r2.efficiency_score
    \/ /\ r1.efficiency_score = r2.efficiency_score
       /\ LastBit(r1, bits) < LastBit(r2, bits)

\* self.df['efficiency_score'].quantile(qnum/qden) on the doubles: the values
\* it may give.  Each is the decimal Quantile gives with, in pos, where the
\* double lies among the doubles of that decimal: at twice the rank of a
\* double of the table, or at an odd number between two of them.  The
\* percentile is a value of the table when h = (n-1)*q is whole; it is
\* interpolated between two values of the table otherwise, and between two
\* doubles of one decimal the interpolation gives either of them or a
\* double between them.
ScoreQuantile(d, bits, qnum, qden) ==
    LET dec == Quantile(Column(d, AllRows(d), "efficiency_score"), qnum, qden)
        s   == SortSeq(AllRows(d), LAMBDA i, j : ScoreLess(d[i], d[j], bits))
        lo  == ((Len(d) - 1) * qnum) \div qden
        r   == ((Len(d) - 1) * qnum) % qden
        at(n) == 2 * LastBit(d[s[n]], bits)
    IN  IF Len(d) = 0 THEN {[nan |-> TRUE, num |-> 0, den |-> 1, pos |-> 0]}
        ELSE {[nan |-> FALSE, num |-> dec.num, den |-> dec.den, pos |-> pos] :
                 pos \in IF r = 0 THEN {at(lo + 1)}
                         ELSE IF at(lo + 1) = at(lo + 2) THEN {at(lo + 1)}
                         ELSE {at(lo + 1), at(lo + 1) + 1, at(lo + 2)}}

\* efficiency_score of r < q and > q, as doubles, for a percentile q of
\* ScoreQuantile; a comparison with NaN is False
ScoreLtQ(r, bits, q) ==
    /\ ~q.nan
    /\ \/ r.efficiency_score * q.den < q.num
       \/ /\ r.efficiency_score * q.den = q.num
          /\ 2 * LastBit(r, bits) < q.pos

ScoreGtQ(r, bits, q) ==
    /\ ~q.nan
    /\ \/ r.efficiency_score * q.den > q.num
       \/ /\ r.efficiency_score * q.den = q.num
          /\ 2 * LastBit(r, bits) > q.pos

\* DataFrame.sort_values(f, ascending=False) of a grouped table t: the orders
\* of the groups it may return.  Its default kind, quicksort, is not stable,
\* so every order that is descending in f is a possible outcome; groups with
\* equal f may come in either order.
SortValuesDescendingBy(t, f) ==
    {[i \in DOMAIN t |-> t[p[i]]] :
        p \in {q \in [DOMAIN t -> DOMAIN t] :
                  /\ \A i, j \in DOMAIN t : i # j => q[i] # q[j]
                  /\ \A i, j \in DOMAIN t : i < j => t[q[i]][f] >= t[q[j]][f]}}

-----------------------------------------------------------------------------
(* identify_problem_areas, lines 181-234.                                  *)

\* A faulty variant of IsSlowMoving: the turnover threshold at 0.2.
IsSlowMovingBelowFifth(r) ==
    r.inventory_days.num > 45 * r.inventory_days.den /\ r.turnover_ratio < 2000

\* (inventory_days > 45) & (turnover_ratio < 0.3)
IsSlowMoving(r) ==
    r.inventory_days.num > 45 * r.inventory_days.den /\ r.turnover_ratio < 3000

\* A faulty variant of IsDeadStock: only the rows that sold exactly one unit.
IsDeadStockOneSold(r) ==
    r.inventory_days.num > 90 * r.inventory_days.den /\ r.units_sold = 1

\* (overstock_units > quantile(0.8)) & (efficiency_score < quantile(0.3)),
\* q80 and q30 being the two quantiles, taken over the whole table
IsOverstocked(r, q80, bits, q30) ==
    /\ GtQ(r.overstock_units, q80)
    /\ ScoreLtQ(r, bits, q30)

\* (inventory_days > 90) & (units_sold <= 1)
IsDeadStock(r) ==
    r.inventory_days.num > 90 * r.inventory_days.den /\ r.units_sold <= 1

\* self.df[mask]: the labels of the rows that pass, in row order
SlowMoving(d) == SelectSeq(AllRows(d), LAMBDA i : IsSlowMoving(d[i]))

\* The index lists self.df[mask] may hold for the mask of the overstocked
\* rows: one for each way the doubles of efficiency_score can lie.
Overstocked(d) ==
    LET q80 == Quantile(Column(d, AllRows(d), "overstock_units"), 4, 5)
    IN  UNION {{SelectSeq(AllRows(d), LAMBDA i : IsOverstocked(d[i], q80, bits, q30)) :
                   q30 \in ScoreQuantile(d, bits, 3, 10)} :
               bits \in LastBits(d)}

\* A faulty variant of DeadStock: the dead stock looked for among the rows that
\* are not slow-moving.
DeadStockOfRest(d) ==
    SelectSeq(AllRows(d), LAMBDA i : IsDeadStock(d[i]) /\ ~IsSlowMoving(d[i]))

DeadStock(d) == SelectSeq(AllRows(d), LAMBDA i : IsDeadStock(d[i]))

\* A DataFrame object: the rows it shows, and the block of memory that
\* holds its data.  Two DataFrames with the same data are views of one
\* another: a write into one is a write into that block.
\* The data of self.df: pd.read_sql returns a DataFrame of its own (line
\* 65), and the column assignments of lines 69 and 87-96 write into it.
TableData == <<"self.df">>

\* self.df as a DataFrame object, d being its rows
TableFrame(d) == [rows |-> d, data |-> TableData]

\* A faulty variant of OwnData: the new DataFrame is a view, it keeps the
\* data of the DataFrame it is made from.
SharedData(name, source) == source.data

\* The data of a DataFrame that a selection by a boolean mask or .copy()
\* makes from source: both copy the values into a new block, named here by
\* the operation and the variable the result goes to.
OwnData(name, source) == name

\* source[mask], lines 182-184, 188-191 and 194-197: the rows of source at
\* the positions idxs the mask selects, as a new DataFrame
MaskSelect(source, idxs, name) ==
    [rows |-> [j \in 1..Len(idxs) |-> source.rows[idxs[j]]],
     data |-> OwnData(<<name, "mask">>, source)]

\* source.copy(), lines 185, 191 and 197
Copy(source, name) ==
    [rows |-> source.rows, data |-> OwnData(<<name, "copy">>, source)]

\* name = self.df[mask].copy(): a segment, as the new DataFrame
SegmentCopy(d, idxs, name) == Copy(MaskSelect(TableFrame(d), idxs, name), name)

\* the three DataFrames of the dict returned (lines 230-234), p holding
\* their index lists
SegmentCopies(d, p) ==
    [slow_moving |-> SegmentCopy(d, p.slow_moving, "slow_moving"),
     overstocked |-> SegmentCopy(d, p.overstocked, "overstocked"),
     dead_stock  |-> SegmentCopy(d, p.dead_stock, "dead_stock")]

\* no DataFrame has been returned yet
NoFrame == [rows |-> <<>>, data |-> <<"none">>]
NoSegments == [slow_moving |-> NoFrame, overstocked |-> NoFrame, dead_stock |-> NoFrame]

\* slow_moving.groupby('category').agg(count, mean, sum, sum).round(2)
\* (the mean of inventory_days is not kept), printed as
\* .sort_values('Count', ascending=False): the tables that may be printed
CategoryAnalysis(d, idxs) ==
    LET keys == GroupKeys(d, idxs, ByCategory)
        rows(g) == GroupRows(d, idxs, ByCategory, keys[g])
        revenue == [g \in 1..Len(keys) |-> Round2(Column(d, rows(g), "net_revenue"))]
    IN  UNION {SortValuesDescendingBy(
                   [g \in 1..Len(keys) |->
                       [key             |-> keys[g],
                        Count           |-> Len(rows(g)),
                        Total_Revenue   |-> rev[g],
                        Total_Overstock |-> SumSeq(Column(d, rows(g), "overstock_units"))]],
                   "Count") : rev \in Choices(revenue)}

\* overstocked.groupby('region').agg(count, sum, sum, mean).round(2)
\* (the mean of efficiency_score is not kept), printed as
\* .sort_values('Total_Overstock', ascending=False): the tables that may be
\* printed
RegionAnalysis(d, idxs) ==
    LET keys == GroupKeys(d, idxs, ByRegion)
        rows(g) == GroupRows(d, idxs, ByRegion, keys[g])
        revenue == [g \in 1..Len(keys) |-> Round2(Column(d, rows(g), "net_revenue"))]
    IN  UNION {SortValuesDescendingBy(
                   [g \in 1..Len(keys) |->
                       [key             |-> keys[g],
                        Count           |-> Len(rows(g)),
                        Total_Overstock |-> SumSeq(Column(d, rows(g), "overstock_units")),
                        Lost_Revenue    |-> rev[g]]],
                   "Total_Overstock") : rev \in Choices(revenue)}

\* The dicts that may be returned, each with the two tables printed on the
\* way; a table is printed only if its segment has rows.
ProblemAreas(d) ==
    UNION {{[slow_moving       |-> SlowMoving(d),
             overstocked       |-> o,
             dead_stock        |-> DeadStock(d),
             category_analysis |-> ca,
             region_analysis   |-> ra] :
               ca \in IF Len(SlowMoving(d)) > 0
                      THEN CategoryAnalysis(d, SlowMoving(d)) ELSE {<<>>},
               ra \in IF Len(o) > 0 THEN RegionAnalysis(d, o) ELSE {<<>>}} :
           o \in Overstocked(d)}

-----------------------------------------------------------------------------
(* correlation_analysis, lines 142-155.                                    *)

relationships_to_test ==
    <<<<"inventory_days", "profit_margin">>,
      <<"turnover_ratio", "net_revenue">>,
      <<"inventory_level", "efficiency_score">>>>

\* Whether column f of row r holds a value.  Every column the query reads is
\* NOT NULL in the table's schema, and the derived columns divide by
\* inventory_level > 0, by units_sold * price > 0 and by units_sold + 0.1
\* only: no row has a missing value.
NotNa(r, f) == f \in DOMAIN r

\* self.df[[var1, var2]].dropna()
CleanData(d, pair) ==
    SelectSeq(AllRows(d), LAMBDA i : NotNa(d[i], pair[1]) /\ NotNa(d[i], pair[2]))

\* A faulty variant of SignificanceTests: the test run from 10 paired rows on.
SignificanceTestsFromTen(d) ==
    SelectSeq(relationships_to_test, LAMBDA pair : Len(CleanData(d, pair)) >= 10)

\* The pairs whose Pearson test is computed and printed:
\* if len(clean_data) > 10.  (The coefficient and the p-value themselves are
\* not modelled.)
SignificanceTests(d) ==
    SelectSeq(relationships_to_test, LAMBDA pair : Len(CleanData(d, pair)) > 10)

\* A faulty variant of InterpretCorrelation: the sign of the coefficient kept.
InterpretCorrelationSigned(num, den) ==
    IF 10 * num >= 7 * den THEN "Strong"
    ELSE IF 10 * num >= 3 * den THEN "Moderate"
    ELSE IF 10 * num >= den THEN "Weak"
    ELSE "Very Weak"

\* _interpret_correlation, lines 159-169, of the coefficient num/den
InterpretCorrelation(num, den) ==
    LET abs_corr == Abs(num)
    IN  IF 10 * abs_corr >= 7 * den THEN "Strong"
        ELSE IF 10 * abs_corr >= 3 * den THEN "Moderate"
        ELSE IF 10 * abs_corr >= den THEN "Weak"
        ELSE "Very Weak"

-----------------------------------------------------------------------------
(* seasonal_analysis, lines 246-253.                                       *)

\* self.df.groupby(['seasonality', 'category']).agg(...).round(3); the three
\* sums are kept, net_revenue in thousandths: the tables it may give
SeasonalMetrics(d) ==
    LET keys == GroupKeys(d, AllRows(d), BySeasonCategory)
        rows(g) == GroupRows(d, AllRows(d), BySeasonCategory, keys[g])
        revenue == [g \in 1..Len(keys) |-> Round3(Column(d, rows(g), "net_revenue"))]
    IN  {[g \in 1..Len(keys) |->
             [key             |-> keys[g],
              net_revenue     |-> rev[g],
              units_sold      |-> SumSeq(Column(d, rows(g), "units_sold")),
              overstock_units |-> SumSeq(Column(d, rows(g), "overstock_units"))]] :
            rev \in Choices(revenue)}

-----------------------------------------------------------------------------
(* generate_strategic_recommendations, lines 293-299 and 347-380.          *)

\* self.df.groupby('category').agg(...).round(3): the two sums; the tables
\* it may give
CategoryPerformance(d) ==
    LET keys == GroupKeys(d, AllRows(d), ByCategory)
        rows(g) == GroupRows(d, AllRows(d), ByCategory, keys[g])
        revenue == [g \in 1..Len(keys) |-> Round3(Column(d, rows(g), "net_revenue"))]
    IN  {[g \in 1..Len(keys) |->
             [key             |-> keys[g],
              net_revenue     |-> rev[g],
              overstock_units |-> SumSeq(Column(d, rows(g), "overstock_units"))]] :
            rev \in Choices(revenue)}

\* .round(3) of the mean of the efficiency_score of the rows idxs (their sum
\* over their number, in 1/10^4): the results it can give, in thousandths.
\* The double of the mean is exact when every score is and the mean is a
\* multiple of 1/16.
MeanRound3(d, idxs) ==
    LET total == SumSeq(Column(d, idxs, "efficiency_score"))
    IN  RoundOutcomes(total, 10 * Len(idxs),
                      /\ \A j \in DOMAIN idxs : ExactScore(d[idxs[j]])
                      /\ total % (625 * Len(idxs)) = 0)

\* self.df.groupby('region').agg(...).round(3): the sum of net_revenue and
\* the mean of efficiency_score, both in thousandths; the tables it may give
RegionalPerformance(d) ==
    LET keys == GroupKeys(d, AllRows(d), ByRegion)
        rows(g) == GroupRows(d, AllRows(d), ByRegion, keys[g])
        revenue == [g \in 1..Len(keys) |-> Round3(Column(d, rows(g), "net_revenue"))]
        score == [g \in 1..Len(keys) |-> MeanRound3(d, rows(g))]
    IN  {[g \in 1..Len(keys) |->
             [key              |-> keys[g],
              net_revenue      |-> rev[g],
              efficiency_score |-> eff[g]]] :
            rev \in Choices(revenue), eff \in Choices(score)}

\* Series.idxmax() and idxmin(): the key of the first row that holds the
\* largest (smallest) value.  t is not empty.
IdxMax(t, f) ==
    LET g == CHOOSE g \in DOMAIN t :
                 /\ \A h \in DOMAIN t : t[h][f] <= t[g][f]
                 /\ \A h \in 1..(g - 1) : t[h][f] < t[g][f]
    IN  t[g].key

IdxMin(t, f) ==
    LET g == CHOOSE g \in DOMAIN t :
                 /\ \A h \in DOMAIN t : t[h][f] >= t[g][f]
                 /\ \A h \in 1..(g - 1) : t[h][f] > t[g][f]
    IN  t[g].key

\* self.df.groupby('seasonality')['efficiency_score'].mean(): per season,
\* the mean sum/count, not rounded
SeasonalMeans(d) ==
    LET keys == GroupKeys(d, AllRows(d), BySeason)
    IN  [g \in 1..Len(keys) |->
            LET rows == GroupRows(d, AllRows(d), BySeason, keys[g])
            IN  [key   |-> keys[g],
                 sum   |-> SumSeq(Column(d, rows, "efficiency_score")),
                 count |-> Len(rows)]]

\* mean of a < mean of b
MeanLess(a, b) == a.sum * b.count < b.sum * a.count

\* .sort_values(ascending=False): the orders of the groups that sort_values
\* may return.  Its default kind, quicksort, is not stable, so every order
\* that is descending in the mean is a possible outcome; groups with equal
\* means may come in either order.
SortValuesDescending(t) ==
    {[i \in DOMAIN t |-> t[p[i]]] :
        p \in {q \in [DOMAIN t -> DOMAIN t] :
                  /\ \A i, j \in DOMAIN t : i # j => q[i] # q[j]
                  /\ \A i, j \in DOMAIN t : i < j => ~MeanLess(t[q[i]], t[q[j]])}}

NoRecs ==
    [category_performance |-> <<>>, regional_performance |-> <<>>,
     best_region |-> "", worst_region |-> "",
     seasonal_perf |-> <<>>, best_season |-> "", worst_season |-> ""]

-----------------------------------------------------------------------------
(* generate_executive_summary, lines 537-560.                              *)

\* top_categories: self.df.groupby('category')['net_revenue'].sum()
\* .sort_values(ascending=False).head(3), in 1/10^4: the tables it may give
CategoryRevenue(d) ==
    LET keys == GroupKeys(d, AllRows(d), ByCategory)
        sums == [g \in 1..Len(keys) |->
                    [key         |-> keys[g],
                     net_revenue |-> SumSeq(Column(d,
                                         GroupRows(d, AllRows(d), ByCategory, keys[g]),
                                         "net_revenue"))]]
    IN  {Head_n(sorted, 3) : sorted \in SortValuesDescendingBy(sums, "net_revenue")}

\* What the summary may print.  The two counts are of the rows strictly
\* above the 80th and strictly below the 20th percentile of
\* efficiency_score, one pair for each way its doubles can lie.
ExecutiveSummary(d) ==
    UNION {{[total_revenue         |-> SumSeq(Column(d, AllRows(d), "net_revenue")),
             total_units           |-> SumSeq(Column(d, AllRows(d), "units_sold")),
             total_overstock_value |->
                 SumSeq([i \in 1..Len(d) |-> d[i].overstock_units * d[i].price]),
             category_revenue      |-> top,
             high_efficiency       |->
                 Len(SelectSeq(d, LAMBDA r : ScoreGtQ(r, bits, q80))),
             low_efficiency        |->
                 Len(SelectSeq(d, LAMBDA r : ScoreLtQ(r, bits, q20)))] :
               top \in CategoryRevenue(d),
               q80 \in ScoreQuantile(d, bits, 4, 5),
               q20 \in ScoreQuantile(d, bits, 1, 5)} :
           bits \in LastBits(d)}

NoSummary ==
    [total_revenue |-> 0, total_units |-> 0, total_overstock_value |-> 0,
     category_revenue |-> <<>>, high_efficiency |-> 0, low_efficiency |-> 0]

NoProblems ==
    [slow_moving |-> <<>>, overstocked |-> <<>>, dead_stock |-> <<>>,
     category_analysis |-> <<>>, region_analysis |-> <<>>]

-----------------------------------------------------------------------------
(* main(), lines 568-592: one action per call.  No call is wrapped in a    *)
(* try: an exception raised by a step leaves main() at once.               *)

AnalysisSteps ==
    <<"correlation_analysis", "identify_problem_areas", "seasonal_analysis",
      "generate_strategic_recommendations", "generate_executive_summary">>

\* The outcomes of load_data in which line 65 has assigned self.df: the
\* load succeeds; connection.close() of line 71 raises a mysql Error; the
\* print of line 66 or pd.to_datetime of line 69 raises another exception.
ReadOutcomes == {"ok", "mysql_error_after_read", "other_exception_after_read"}

\* The outcomes in which an exception that is no mysql Error leaves the try:
\* pd.read_sql raises it (line 65, self.df not assigned), or a later line does.
UncaughtOutcomes == {"other_exception", "other_exception_after_read"}

\* analytics.load_data(), lines 45-78.  The outcomes: the connection cannot
\* be made (connect_to_database returns None); a mysql Error is raised in
\* the try, before or after self.df is assigned (caught: the connection is
\* closed, False is returned); another exception is raised in the try,
\* before or after self.df is assigned (not caught: it leaves load_data and
\* main() with the connection open); the load succeeds.  self.df holds the
\* rows of the query from line 65 on, however load_data ends.
LoadData ==
    /\ pc = "start"
    /\ \E outcome \in ReadOutcomes \cup UncaughtOutcomes
                          \cup {"connect_error", "mysql_error"} :
          /\ df' = IF outcome \in ReadOutcomes THEN SqlSelect(table) ELSE df
          /\ df_is_none' = (outcome \notin ReadOutcomes)
          /\ conn' = CASE outcome = "connect_error" -> "none"
                       [] outcome \in UncaughtOutcomes -> "open"
                       [] OTHER -> "closed"
          /\ pc' = CASE outcome = "ok" -> "loaded"
                     [] outcome \in UncaughtOutcomes -> "crashed"
                     [] OTHER -> "returned"
    /\ UNCHANGED <<table, executed, failed, corr_tests, problems, seasonal,
                   recs, summary, cut_in, cut_out,
                   segments, interpVars, procVars>>

\* analytics.calculate_inventory_metrics()
CalculateInventoryMetrics ==
    /\ pc = "loaded"
    /\ ~df_is_none
    /\ df' = [i \in 1..Len(df) |-> MetricsRow(df[i])]
    /\ pc' = "metrics"
    /\ UNCHANGED <<table, df_is_none, conn, executed, failed, corr_tests,
                   problems, seasonal, recs, summary, cut_in, cut_out,
                   segments, interpVars, procVars>>

\* analytics.correlation_analysis(), lines 104-157: what a call does, the
\* caller going on at position to
CorrelationAnalysisCall(to) ==
    /\ corr_tests' = SignificanceTests(df)
    /\ executed' = Append(executed, "correlation_analysis")
    /\ pc' = to
    /\ UNCHANGED <<table, df, df_is_none, conn, failed, problems, seasonal,
                   recs, summary, cut_in, cut_out,
                   segments, interpVars, procVars>>

\* main(), line 584
CorrelationAnalysis == pc = "metrics" /\ CorrelationAnalysisCall("correlation")

\* analytics.identify_problem_areas(), lines 171-234: what a call does
IdentifyProblemAreasCall(to) ==
    /\ problems' \in ProblemAreas(df)
    /\ segments' = SegmentCopies(df, problems')
    /\ executed' = Append(executed, "identify_problem_areas")
    /\ pc' = to
    /\ UNCHANGED <<table, df, df_is_none, conn, failed, corr_tests, seasonal,
                   recs, summary, cut_in, cut_out, interpVars, procVars>>

\* main(), line 585
IdentifyProblemAreas ==
    pc = "correlation" /\ IdentifyProblemAreasCall("problem_areas")

\* analytics.seasonal_analysis(), lines 236-268: what a call does
SeasonalAnalysisCall(to) ==
    /\ seasonal' \in SeasonalMetrics(df)
    /\ executed' = Append(executed, "seasonal_analysis")
    /\ pc' = to
    /\ UNCHANGED <<table, df, df_is_none, conn, failed, corr_tests, problems,
                   recs, summary, cut_in, cut_out,
                   segments, interpVars, procVars>>

\* main(), line 586
SeasonalAnalysis == pc = "problem_areas" /\ SeasonalAnalysisCall("seasonal")

\* analytics.generate_strategic_recommendations().  With no rows the grouped
\* table is empty and idxmax() raises ValueError (line 354).  With rows, the
\* report file is opened at a fixed path (line 426); open() raises OSError
\* when it cannot be created (file_ok is that outcome).
GenerateStrategicRecommendations ==
    /\ pc = "seasonal"
    /\ executed' = Append(executed, "generate_strategic_recommendations")
    /\ IF Len(df) = 0
       THEN /\ recs' = NoRecs
            /\ failed' = failed \cup {"generate_strategic_recommendations"}
            /\ pc' = "crashed"
       ELSE \E category_performance \in CategoryPerformance(df),
               regional_performance \in RegionalPerformance(df),
               sorted \in SortValuesDescending(SeasonalMeans(df)),
               file_ok \in BOOLEAN :
               /\ recs' = [category_performance |-> category_performance,
                           regional_performance |-> regional_performance,
                           best_region  |-> IdxMax(regional_performance, "efficiency_score")[1],
                           worst_region |-> IdxMin(regional_performance, "efficiency_score")[1],
                           seasonal_perf |-> sorted,
                           best_season  |-> sorted[1].key[1],
                           worst_season |-> sorted[Len(sorted)].key[1]]
               /\ failed' = IF file_ok THEN failed
                            ELSE failed \cup {"generate_strategic_recommendations"}
               /\ pc' = IF file_ok THEN "recommendations" ELSE "crashed"
    /\ UNCHANGED <<table, df, df_is_none, conn, corr_tests, problems, seasonal,
                   summary, cut_in, cut_out,
                   segments, interpVars, procVars>>

\* analytics.generate_executive_summary(), lines 526-566: what a call
\* does.  With no rows the percentage high_efficiency/len(self.df) raises
\* ZeroDivisionError (line 559), which no caller of the repository catches.
GenerateExecutiveSummaryCall(to) ==
    /\ executed' = Append(executed, "generate_executive_summary")
    /\ IF Len(df) = 0
       THEN /\ summary' = summary
            /\ failed' = failed \cup {"generate_executive_summary"}
            /\ pc' = "crashed"
       ELSE /\ summary' \in ExecutiveSummary(df)
            /\ failed' = failed
            /\ pc' = to
    /\ UNCHANGED <<table, df, df_is_none, conn, corr_tests, problems, seasonal,
                   recs, cut_in, cut_out,
                   segments, interpVars, procVars>>

\* main(), line 588
GenerateExecutiveSummary ==
    pc = "recommendations" /\ GenerateExecutiveSummaryCall("summary")

\* print("Analysis completed successfully!") and the return of main()
Finish ==
    /\ pc = "summary"
    /\ pc' = "done"
    /\ UNCHANGED <<table, df, df_is_none, conn, executed, failed, corr_tests,
                   problems, seasonal, recs, summary, cut_in, cut_out,
                   segments, interpVars, procVars>>

Next ==
    \/ LoadData
    \/ CalculateInventoryMetrics
    \/ CorrelationAnalysis
    \/ IdentifyProblemAreas
    \/ SeasonalAnalysis
    \/ GenerateStrategicRecommendations
    \/ GenerateExecutiveSummary
    \/ Finish

-----------------------------------------------------------------------------
(* The tables the run starts from.                                         *)

RawRow(inv, units, price, discount, category, region, seasonality) ==
    [inventory_level |-> inv, units_sold |-> units, price |-> price,
     discount |-> discount, category |-> category, region |-> region,
     seasonality |-> seasonality]

\* the sequences of at most n rows drawn from D
Tables(D, n) == UNION {[1..k -> D] : k \in 0..n}

\* _interpret_correlation has not been applied
InterpretIdle ==
    /\ corr_in = 0
    /\ corr_out = "unset"

\* no RetailDataProcessor is running
ProcessorIdle ==
    /\ p_pc = "idle"
    /\ p_conn = "none"
    /\ p_steps = <<>>
    /\ p_ok = {}
    /\ p_result = "none"
    /\ p_returned = "none"
    /\ p_total = 0
    /\ p_batch_size = 1
    /\ p_start = 0
    /\ p_batch = <<>>
    /\ p_sent = <<>>
    /\ p_pending = <<>>
    /\ p_committed = <<>>
    /\ p_inserted = 0
    /\ p_insert = "none"
    /\ p_error = "none"
    /\ p_rollback = "none"
    /\ p_report = "none"
    /\ p_close = "none"

\* the state after RetailAnalytics() and before load_data(), the table being
\* one of T
Constructed(T) ==
    /\ table \in T
    /\ df = <<>>
    /\ df_is_none = TRUE
    /\ conn = "none"
    /\ pc = "start"
    /\ executed = <<>>
    /\ failed = {}
    /\ corr_tests = <<>>
    /\ problems = NoProblems
    /\ seasonal = <<>>
    /\ recs = NoRecs
    /\ summary = NoSummary
    /\ cut_in = 0
    /\ cut_out = "unset"
    /\ segments = NoSegments
    /\ InterpretIdle
    /\ ProcessorIdle

\* Spec: up to MaxRows rows that differ in inventory_level and units_sold.
SmallInvs == {0, 1, 4, 10}
SmallUnits == {0, 1, 2}
RowsSmall ==
    {RawRow(inv, units, 1000, 0, "Clothing", "East", "Autumn") :
        inv \in SmallInvs, units \in SmallUnits}

Init == Constructed(Tables(RowsSmall, MaxRows))

Spec == Init /\ [][Next]_vars

\* SpecRow: one row, over a wide range of inventory_level, units_sold, price
\* and discount.
WidePrices == {0, 199, 250}
WideDiscounts == {0, 15, 100}
\* the largest units_sold whose ratio to inv is below 0.3
LargestBelowThreeTenths(inv) == (3 * inv - 1) \div 10

RowsWide ==
    {RawRow(iu[1], iu[2], price, discount, "Clothing", "East", "Autumn") :
        iu \in ((0..MaxInv) \X (0..MaxUnits))
                  \cup {<<BigInv, BigInv + 1>>,
                        <<EdgeInv, LargestBelowThreeTenths(EdgeInv)>>},
        price \in WidePrices, discount \in WideDiscounts}

InitRow == Constructed([1..1 -> RowsWide])

SpecRow == InitRow /\ [][Next]_vars

\* SpecGroup: up to MaxGroupRows rows that differ in their group keys and in
\* units_sold.  A unit sells at 10.05 less 15%, a net revenue of 8.5425: the
\* sums of net_revenue have four decimals, and some lie halfway between two
\* values of two or of three decimals.
GroupUnits == {1, 2}
RowsGroup ==
    {RawRow(4, units, 1005, 15, category, region, seasonality) :
        units \in GroupUnits, category \in Range(Categories),
        region \in Range(Regions), seasonality \in Range(Seasons)}

InitGroup == Constructed(Tables(RowsGroup, MaxGroupRows))

SpecGroup == InitGroup /\ [][Next]_vars

\* SpecCorr: up to MaxCorrRows rows that differ in units_sold.
RowsCorr ==
    {RawRow(4, units, 1000, 0, "Clothing", "East", "Autumn") : units \in GroupUnits}

InitCorr == Constructed(Tables(RowsCorr, MaxCorrRows))

SpecCorr == InitCorr /\ [][Next]_vars

-----------------------------------------------------------------------------
(* A caller of RetailAnalytics other than main(): once the metrics are     *)
(* calculated it calls the analyses in any order, each any number of times *)
(* (up to MaxCalls calls in all).                                          *)

SegmentNames == {"slow_moving", "overstocked", "dead_stock"}

\* the caller can make one more call
CanCall == pc \in {"metrics", "called"} /\ Len(executed) < MaxCalls

CallCorrelationAnalysis == CanCall /\ CorrelationAnalysisCall("called")

CallIdentifyProblemAreas == CanCall /\ IdentifyProblemAreasCall("called")

CallSeasonalAnalysis == CanCall /\ SeasonalAnalysisCall("called")

CallGenerateExecutiveSummary == CanCall /\ GenerateExecutiveSummaryCall("called")

NextFrame ==
    \/ LoadData
    \/ CalculateInventoryMetrics
    \/ CallCorrelationAnalysis
    \/ CallIdentifyProblemAreas
    \/ CallSeasonalAnalysis
    \/ CallGenerateExecutiveSummary

\* SpecFrame: that caller over up to MaxFrameRows rows: a row without sales,
\* a row that sells half its stock, and two rows whose efficiency_score is
\* 30 as a decimal and computed from different factors, 0.3 * 1.0 * 100 and
\* 0.4 * 0.75 * 100.
RowsFrame ==
    {RawRow(10, 0, 1000, 0, "Clothing", "East", "Autumn"),
     RawRow(4, 2, 1000, 0, "Clothing", "East", "Autumn"),
     RawRow(10, 3, 1000, 0, "Clothing", "East", "Autumn"),
     RawRow(5, 2, 1000, 25, "Clothing", "East", "Autumn")}

InitFrame == Constructed(Tables(RowsFrame, MaxFrameRows))

SpecFrame == InitFrame /\ [][NextFrame]_vars

-----------------------------------------------------------------------------
(* pd.cut as a function of one value: SpecCut applies it to cut_in/CutDen. *)

ApplyCut ==
    /\ pc = "cut"
    /\ cut_out = "unset"
    /\ cut_out' = Cut(cut_in, CutDen)
    /\ UNCHANGED <<table, df, df_is_none, conn, pc, executed, failed,
                   corr_tests, problems, seasonal, recs, summary, cut_in,
                   segments, interpVars, procVars>>

InitCut ==
    /\ cut_in \in 0..MaxCutNum
    /\ cut_out = "unset"
    /\ pc = "cut"
    /\ table = <<>>
    /\ df = <<>>
    /\ df_is_none = TRUE
    /\ conn = "none"
    /\ executed = <<>>
    /\ failed = {}
    /\ corr_tests = <<>>
    /\ problems = NoProblems
    /\ seasonal = <<>>
    /\ recs = NoRecs
    /\ summary = NoSummary
    /\ segments = NoSegments
    /\ InterpretIdle
    /\ ProcessorIdle

NextCut == ApplyCut

SpecCut == InitCut /\ [][NextCut]_vars

-----------------------------------------------------------------------------
(* _interpret_correlation as a function of one coefficient: SpecInterpret  *)
(* applies it to corr_in/CorrDen.                                          *)

ApplyInterpret ==
    /\ pc = "interpret"
    /\ corr_out = "unset"
    /\ corr_out' = InterpretCorrelation(corr_in, CorrDen)
    /\ UNCHANGED <<table, df, df_is_none, conn, pc, executed, failed,
                   corr_tests, problems, seasonal, recs, summary, cut_in,
                   cut_out, segments, corr_in, procVars>>

InitInterpret ==
    /\ corr_in \in (-CorrDen)..CorrDen
    /\ corr_out = "unset"
    /\ pc = "interpret"
    /\ table = <<>>
    /\ df = <<>>
    /\ df_is_none = TRUE
    /\ conn = "none"
    /\ executed = <<>>
    /\ failed = {}
    /\ corr_tests = <<>>
    /\ problems = NoProblems
    /\ seasonal = <<>>
    /\ recs = NoRecs
    /\ summary = NoSummary
    /\ cut_in = 0
    /\ cut_out = "unset"
    /\ segments = NoSegments
    /\ ProcessorIdle

NextInterpret == ApplyInterpret

SpecInterpret == InitInterpret /\ [][NextInterpret]_vars

-----------------------------------------------------------------------------
(* RetailDataProcessor (src/retail_data_processor.py).  The rows of the    *)
(* CSV's DataFrame are named by their positions 0..total_records-1; their  *)
(* values are not modelled.  p_committed holds the rows of the input that  *)
(* are committed to retail_inventory; rows the table held before the call  *)
(* are not modelled.  A commit() that raises is taken not to have          *)
(* committed the open transaction.                                         *)

\* batch_size=1000, the default that process_retail_data uses
DefaultBatchSize == 1000

\* the concatenation of a sequence of sequences
RECURSIVE Flatten(_)
Flatten(ss) == IF ss = <<>> THEN <<>> ELSE Head(ss) \o Flatten(Tail(ss))

\* the row positions first, first+1, ..., last-1
RowsFrom(first, last) == [j \in 1..(last - first) |-> first + j - 1]

\* A faulty variant of BatchEnd: the end of the last batch not cut at
\* total_records.
BatchEndUnclamped(start_idx, batch_size, total_records) == start_idx + batch_size

\* end_idx = min(start_idx + batch_size, total_records)
BatchEnd(start_idx, batch_size, total_records) ==
    Min(start_idx + batch_size, total_records)

\* the next start_idx of range(0, total_records, batch_size)
NextStartIdx(start_idx, batch_size) == start_idx + batch_size

\* A faulty variant of TableAfterRollback: the rollback undoing the batches
\* committed before as well.
TableAfterRollbackAll(committed, pending) == <<>>

\* self.connection.rollback(): the rows of the open transaction are removed,
\* the committed rows stay.
TableAfterRollback(committed, pending) == committed

\* insert_data_batch(df), lines 126-128: the call and the two counters
InsertDataBatch ==
    /\ p_pc = "csv"
    /\ p_steps' = Append(p_steps, "insert_data_batch")
    /\ p_start' = 0
    /\ p_inserted' = 0
    /\ p_pc' = "loop"
    /\ UNCHANGED <<analyticsVars, interpVars, p_conn, p_ok, p_result,
                   p_returned, p_total, p_batch_size, p_batch, p_sent,
                   p_pending, p_committed, p_insert, p_error, p_rollback,
                   p_report, p_close>>

\* An exception that is no mysql Error is raised in the try of
\* insert_data_batch (lines 126-164).  "except Error" (line 166) does not
\* catch it: no rollback is called and the exception leaves
\* insert_data_batch.  pending are the rows of the open transaction; they
\* stay in it, uncommitted.
InsertRaises(pending) ==
    /\ p_error' = "other_exception"
    /\ p_rollback' = "none"
    /\ p_committed' = p_committed
    /\ p_pending' = pending
    /\ p_insert' = "raised"
    /\ p_pc' = "insert_returned"

\* lines 166-169: a mysql Error raised in the try is caught and
\* self.connection.rollback() is called, pending being the rows of the open
\* transaction.  When rollback() returns, False is returned (line 169).
\* rollback() is inside the handler and can raise itself (the connection is
\* lost): that exception leaves insert_data_batch, line 169 is not reached,
\* and the rows of the open transaction stay uncommitted.
InsertFails(pending) ==
    /\ p_error' = "mysql_error"
    /\ \E rollback_ok \in BOOLEAN :
          /\ p_rollback' = IF rollback_ok THEN "ok" ELSE "raised"
          /\ p_committed' = IF rollback_ok
                            THEN TableAfterRollback(p_committed, pending)
                            ELSE p_committed
          /\ p_pending' = IF rollback_ok THEN <<>> ELSE pending
          /\ p_insert' = IF rollback_ok THEN "False" ELSE "raised"
    /\ p_pc' = "insert_returned"

\* lines 131-154: one more start_idx of the range, and the batch built from
\* df.iloc[start_idx:end_idx].  The conversions of lines 143-152 (int(),
\* float()) and the column look-ups raise ValueError or KeyError on a row
\* that does not convert (convert_ok is that outcome): no mysql Error.
\* batch_data then holds the rows before that row.
BuildBatch ==
    /\ p_pc = "loop"
    /\ p_start < p_total
    /\ LET batch == RowsFrom(p_start, BatchEnd(p_start, p_batch_size, p_total))
       IN  \E convert_ok \in BOOLEAN :
              IF convert_ok
              THEN /\ p_batch' = batch
                   /\ p_pc' = "built"
                   /\ UNCHANGED <<p_pending, p_committed, p_insert, p_error,
                                  p_rollback>>
              ELSE /\ \E n \in 0..(Len(batch) - 1) :
                         p_batch' = SubSeq(batch, 1, n)
                   /\ InsertRaises(p_pending)
    /\ UNCHANGED <<analyticsVars, interpVars, p_conn, p_steps, p_ok, p_result,
                   p_returned, p_total, p_batch_size, p_start, p_sent,
                   p_inserted, p_report, p_close>>

\* line 157: self.cursor.executemany(insert_query, batch_data).  When it
\* raises, any leading part of the batch may have been inserted in the open
\* transaction.
ExecuteMany ==
    /\ p_pc = "built"
    /\ p_sent' = Append(p_sent, p_batch)
    /\ \E outcome \in {"ok", "mysql_error", "other_exception"} :
          CASE outcome = "ok" ->
                  /\ p_pending' = p_batch
                  /\ p_pc' = "executed"
                  /\ UNCHANGED <<p_committed, p_insert, p_error, p_rollback>>
            [] outcome = "mysql_error" ->
                  \E n \in 0..Len(p_batch) : InsertFails(SubSeq(p_batch, 1, n))
            [] outcome = "other_exception" ->
                  \E n \in 0..Len(p_batch) : InsertRaises(SubSeq(p_batch, 1, n))
    /\ UNCHANGED <<analyticsVars, interpVars, p_conn, p_steps, p_ok, p_result,
                   p_returned, p_total, p_batch_size, p_start, p_batch,
                   p_inserted, p_report, p_close>>

\* lines 158-161: self.connection.commit(), inserted_records += len(batch),
\* and the loop goes on
Commit ==
    /\ p_pc = "executed"
    /\ \E outcome \in {"ok", "mysql_error", "other_exception"} :
          CASE outcome = "ok" ->
                  /\ p_committed' = p_committed \o p_pending
                  /\ p_pending' = <<>>
                  /\ p_inserted' = p_inserted + Len(p_batch)
                  /\ p_start' = NextStartIdx(p_start, p_batch_size)
                  /\ p_pc' = "loop"
                  /\ UNCHANGED <<p_insert, p_error, p_rollback>>
            [] outcome = "mysql_error" ->
                  /\ InsertFails(p_pending)
                  /\ UNCHANGED <<p_inserted, p_start>>
            [] outcome = "other_exception" ->
                  /\ InsertRaises(p_pending)
                  /\ UNCHANGED <<p_inserted, p_start>>
    /\ UNCHANGED <<analyticsVars, interpVars, p_conn, p_steps, p_ok, p_result,
                   p_returned, p_total, p_batch_size, p_batch, p_sent,
                   p_report, p_close>>

\* lines 163-164: the range is exhausted, return True
InsertReturnsTrue ==
    /\ p_pc = "loop"
    /\ p_start >= p_total
    /\ p_insert' = "True"
    /\ p_pc' = "insert_returned"
    /\ UNCHANGED <<analyticsVars, interpVars, p_conn, p_steps, p_ok, p_result,
                   p_returned, p_total, p_batch_size, p_start, p_batch, p_sent,
                   p_pending, p_committed, p_inserted, p_error, p_rollback,
                   p_report, p_close>>

NextInsert ==
    \/ InsertDataBatch
    \/ BuildBatch
    \/ ExecuteMany
    \/ Commit
    \/ InsertReturnsTrue

\* The steps of process_retail_data, in the order of lines 302-326
ProcSteps ==
    <<"connect_to_mysql", "create_database", "create_table_schema",
      "load_and_process_csv", "insert_data_batch",
      "create_profit_analysis_views", "generate_summary_report">>

\* if not self.step(): return False -- the step has returned ok; on False
\* the result is False and the finally clause is next
StepReturned(step, ok, next_pc) ==
    /\ p_ok' = IF ok THEN p_ok \cup {step} ELSE p_ok
    /\ p_result' = IF ok THEN p_result ELSE "False"
    /\ p_pc' = IF ok THEN next_pc ELSE "finally"

\* connect_to_mysql, lines 29-44: connect() raises an Error (no connection),
\* or connection.cursor() does (the connection is made, the step fails), or
\* both succeed.
ConnectToMysql ==
    /\ p_pc = "start"
    /\ p_steps' = Append(p_steps, "connect_to_mysql")
    /\ \E outcome \in {"ok", "connect_error", "cursor_error"} :
          /\ p_conn' = IF outcome = "connect_error" THEN "none" ELSE "open"
          /\ StepReturned("connect_to_mysql", outcome = "ok", "connected")
    /\ UNCHANGED <<analyticsVars, interpVars, p_returned, p_total,
                   p_batch_size, p_start, p_batch, p_sent, p_pending,
                   p_committed, p_inserted, p_insert, p_error, p_rollback,
                   p_report, p_close>>

\* create_database, lines 46-55
CreateDatabase ==
    /\ p_pc = "connected"
    /\ p_steps' = Append(p_steps, "create_database")
    /\ \E db_ok \in BOOLEAN : StepReturned("create_database", db_ok, "database")
    /\ UNCHANGED <<analyticsVars, interpVars, p_conn, p_returned, p_total,
                   p_batch_size, p_start, p_batch, p_sent, p_pending,
                   p_committed, p_inserted, p_insert, p_error, p_rollback,
                   p_report, p_close>>

\* create_table_schema, lines 57-92
CreateTableSchema ==
    /\ p_pc = "database"
    /\ p_steps' = Append(p_steps, "create_table_schema")
    /\ \E db_ok \in BOOLEAN : StepReturned("create_table_schema", db_ok, "table")
    /\ UNCHANGED <<analyticsVars, interpVars, p_conn, p_returned, p_total,
                   p_batch_size, p_start, p_batch, p_sent, p_pending,
                   p_committed, p_inserted, p_insert, p_error, p_rollback,
                   p_report, p_close>>

\* load_and_process_csv, lines 94-114: the DataFrame of p_total rows, or
\* None after any exception
LoadAndProcessCsv ==
    /\ p_pc = "table"
    /\ p_steps' = Append(p_steps, "load_and_process_csv")
    /\ \E csv_ok \in BOOLEAN : StepReturned("load_and_process_csv", csv_ok, "csv")
    /\ UNCHANGED <<analyticsVars, interpVars, p_conn, p_returned, p_total,
                   p_batch_size, p_start, p_batch, p_sent, p_pending,
                   p_committed, p_inserted, p_insert, p_error, p_rollback,
                   p_report, p_close>>

\* line 318: if not self.insert_data_batch(df): return False.  When
\* insert_data_batch has raised instead of returning, "except Exception"
\* (lines 331-333) catches the exception and returns False as well.
InsertDataBatchReturned ==
    /\ p_pc = "insert_returned"
    /\ StepReturned("insert_data_batch", p_insert = "True", "inserted")
    /\ UNCHANGED <<analyticsVars, interpVars, p_conn, p_steps, p_returned,
                   p_total, p_batch_size, p_start, p_batch, p_sent, p_pending,
                   p_committed, p_inserted, p_insert, p_error, p_rollback,
                   p_report, p_close>>

\* create_profit_analysis_views, lines 171-237
CreateProfitAnalysisViews ==
    /\ p_pc = "inserted"
    /\ p_steps' = Append(p_steps, "create_profit_analysis_views")
    /\ \E db_ok \in BOOLEAN :
          StepReturned("create_profit_analysis_views", db_ok, "views")
    /\ UNCHANGED <<analyticsVars, interpVars, p_conn, p_returned, p_total,
                   p_batch_size, p_start, p_batch, p_sent, p_pending,
                   p_committed, p_inserted, p_insert, p_error, p_rollback,
                   p_report, p_close>>

\* A faulty variant of ResultAfterReport: every failure of the report making
\* the result False.
ResultAfterReportStrict(outcome) == IF outcome = "ok" THEN "True" ELSE "False"

\* What process_retail_data is about to return once the report has been
\* called, lines 325-331.  generate_summary_report catches mysql's Error only
\* (line 287): such an error is logged and True is returned.  Any other
\* exception raised in it (by a print, by the formatting of a fetched value)
\* leaves it and is caught by "except Exception" of process_retail_data,
\* which returns False.
ResultAfterReport(outcome) == IF outcome = "other_exception" THEN "False" ELSE "True"

\* generate_summary_report, lines 239-288, and the return of line 327
GenerateSummaryReport ==
    /\ p_pc = "views"
    /\ p_steps' = Append(p_steps, "generate_summary_report")
    /\ \E outcome \in {"ok", "mysql_error", "other_exception"} :
          /\ p_report' = outcome
          /\ p_ok' = IF outcome = "ok" THEN p_ok \cup {"generate_summary_report"}
                     ELSE p_ok
          /\ p_result' = ResultAfterReport(outcome)
    /\ p_pc' = "finally"
    /\ UNCHANGED <<analyticsVars, interpVars, p_conn, p_returned, p_total,
                   p_batch_size, p_start, p_batch, p_sent, p_pending,
                   p_committed, p_inserted, p_insert, p_error, p_rollback,
                   p_close>>

\* self.cursor is set once connection.cursor() has returned (line 39)
CursorMade == "connect_to_mysql" \in p_ok

\* How close_connection (lines 290-296) can end.  It has no try: when
\* self.cursor.close() (line 293) raises, self.connection.close() is not
\* reached; when self.connection.close() (line 295) raises, the connection
\* has not been closed.  A cursor or connection that is None is skipped.
CloseOutcomes ==
    {"ok"} \cup (IF CursorMade THEN {"cursor_raised"} ELSE {})
           \cup (IF p_conn = "open" THEN {"connection_raised"} ELSE {})

\* finally: self.close_connection() (line 335), and the end of the call.
\* When close_connection returns, process_retail_data returns the result of
\* its try or except clause.  When close_connection raises, the exception
\* leaves the finally clause and replaces that result: process_retail_data
\* raises, with the connection still open.  A connection.close() that
\* returns ends the session without a commit: the server rolls the open
\* transaction back (autocommit is off), so the rows sent and not committed
\* are dropped and the committed rows stay.
CloseConnection ==
    /\ p_pc = "finally"
    /\ \E outcome \in CloseOutcomes :
          /\ p_close' = outcome
          /\ p_conn' = IF outcome = "ok" /\ p_conn = "open" THEN "closed"
                       ELSE p_conn
          /\ p_pending' = IF outcome = "ok" /\ p_conn = "open" THEN <<>>
                          ELSE p_pending
          /\ p_returned' = IF outcome = "ok" THEN p_result ELSE "raised"
    /\ p_pc' = "returned"
    /\ UNCHANGED <<analyticsVars, interpVars, p_steps, p_ok, p_result, p_total,
                   p_batch_size, p_start, p_batch, p_sent,
                   p_committed, p_inserted, p_insert, p_error, p_rollback,
                   p_report>>

NextProc ==
    \/ ConnectToMysql
    \/ CreateDatabase
    \/ CreateTableSchema
    \/ LoadAndProcessCsv
    \/ InsertDataBatch
    \/ BuildBatch
    \/ ExecuteMany
    \/ Commit
    \/ InsertReturnsTrue
    \/ InsertDataBatchReturned
    \/ CreateProfitAnalysisViews
    \/ GenerateSummaryReport
    \/ CloseConnection

\* no RetailAnalytics is running
AnalyticsIdle ==
    /\ table = <<>>
    /\ df = <<>>
    /\ df_is_none = TRUE
    /\ conn = "none"
    /\ pc = "idle"
    /\ executed = <<>>
    /\ failed = {}
    /\ corr_tests = <<>>
    /\ problems = NoProblems
    /\ seasonal = <<>>
    /\ recs = NoRecs
    /\ summary = NoSummary
    /\ cut_in = 0
    /\ cut_out = "unset"
    /\ segments = NoSegments

\* nothing has been inserted, reported or returned yet
InsertNotCalled ==
    /\ p_start = 0
    /\ p_batch = <<>>
    /\ p_sent = <<>>
    /\ p_pending = <<>>
    /\ p_committed = <<>>
    /\ p_inserted = 0
    /\ p_insert = "none"
    /\ p_error = "none"
    /\ p_rollback = "none"
    /\ p_report = "none"
    /\ p_close = "none"
    /\ p_result = "none"
    /\ p_returned = "none"

\* SpecProc: process_retail_data on a CSV of up to MaxCsvRows rows, after
\* RetailDataProcessor() (lines 20-27)
InitProc ==
    /\ AnalyticsIdle
    /\ InterpretIdle
    /\ InsertNotCalled
    /\ p_pc = "start"
    /\ p_conn = "none"
    /\ p_steps = <<>>
    /\ p_ok = {}
    /\ p_total \in 0..MaxCsvRows
    /\ p_batch_size = DefaultBatchSize

SpecProc == InitProc /\ [][NextProc]_vars

\* SpecInsert: insert_data_batch(df, batch_size) on a DataFrame of up to
\* MaxCsvRows rows with a batch_size of up to MaxBatchSize, called on a
\* connected processor whose first four steps are done
InitInsert ==
    /\ AnalyticsIdle
    /\ InterpretIdle
    /\ InsertNotCalled
    /\ p_pc = "csv"
    /\ p_conn = "open"
    /\ p_steps = SubSeq(ProcSteps, 1, 4)
    /\ p_ok = {ProcSteps[n] : n \in 1..4}
    /\ p_total \in 0..MaxCsvRows
    /\ p_batch_size \in 1..MaxBatchSize

SpecInsert == InitInsert /\ [][NextInsert]_vars

-----------------------------------------------------------------------------
(* The claims.                                                             *)

Loaded == ~df_is_none
Ran(step) == step \in Range(executed)

\* C1, as stated: for every row with inventory_level > 0, turnover_ratio
\* equals units_sold / inventory_level; it lies in [0, 1] whenever
\* 0 <= units_sold <= inventory_level and is strictly greater than 1
\* whenever units_sold > inventory_level.
C1_TurnoverExact ==
    Loaded =>
        \A i \in DOMAIN df :
            LET r == df[i]
            IN  r.inventory_level > 0 =>
                    /\ r.turnover_ratio * r.inventory_level = r.units_sold * 10000
                    /\ (0 <= r.units_sold /\ r.units_sold <= r.inventory_level)
                           => (0 <= r.turnover_ratio /\ r.turnover_ratio <= 10000)
                    /\ r.units_sold > r.inventory_level => r.turnover_ratio > 10000

\* C2: for every row with price > 0 and discount in 0..100, profit_margin is
\* 1 - discount/100 if units_sold > 0, whatever price and units_sold are,
\* and 0 if units_sold = 0; in both cases it lies in [0, 1].
C2_ProfitMargin ==
    Loaded =>
        \A i \in DOMAIN df :
            LET r == df[i]
            IN  (r.price > 0 /\ r.discount \in 0..100) =>
                    /\ r.units_sold > 0 => r.profit_margin = 100 - r.discount
                    /\ r.units_sold = 0 => r.profit_margin = 0
                    /\ 0 <= r.profit_margin /\ r.profit_margin <= 100

\* a loaded row with sales and a discount, whose margin is 1 - discount/100
C2_Witness ==
    /\ Loaded
    /\ \E i \in DOMAIN df :
          /\ df[i].units_sold > 1
          /\ df[i].discount = 15
          /\ df[i].profit_margin = 85

\* C3, as stated: inventory_days d gets Fast Moving when 0 <= d < 15, Normal
\* when 15 <= d < 30, Slow Moving when 30 <= d < 60 and Dead Stock when
\* d >= 60, the values 0, 15, 30 and 60 included.
C3_LeftClosedBins ==
    cut_out # "unset" =>
        /\ (0 <= cut_in /\ cut_in < 15 * CutDen) => cut_out = "Fast Moving"
        /\ (15 * CutDen <= cut_in /\ cut_in < 30 * CutDen) => cut_out = "Normal"
        /\ (30 * CutDen <= cut_in /\ cut_in < 60 * CutDen) => cut_out = "Slow Moving"
        /\ 60 * CutDen <= cut_in => cut_out = "Dead Stock"

\* C3, amended: inventory_days d gets Fast Moving when 0 < d <= 15, Normal
\* when 15 < d <= 30, Slow Moving when 30 < d <= 60 and Dead Stock when
\* d > 60; d = 0 gets no category (a missing value).
C3_RightClosedBins ==
    cut_out # "unset" =>
        /\ cut_in = 0 => cut_out = "NaN"
        /\ (0 < cut_in /\ cut_in <= 15 * CutDen) => cut_out = "Fast Moving"
        /\ (15 * CutDen < cut_in /\ cut_in <= 30 * CutDen) => cut_out = "Normal"
        /\ (30 * CutDen < cut_in /\ cut_in <= 60 * CutDen) => cut_out = "Slow Moving"
        /\ 60 * CutDen < cut_in => cut_out = "Dead Stock"

\* the value 15 has been cut, and is Fast Moving
C3_Witness == cut_in = 15 * CutDen /\ cut_out = "Fast Moving"

\* C4: identify_problem_areas evaluates its three predicates independently
\* over the full table: a row is in slow_moving iff inventory_days > 45 and
\* turnover_ratio < 0.3; in dead_stock iff inventory_days > 90 and
\* units_sold <= 1; in overstocked iff overstock_units is above the table's
\* 80th percentile of overstock_units and efficiency_score below the table's
\* 30th percentile of efficiency_score.  A row can be in several segments.
\* (The scores and their percentile are compared as the doubles they are:
\* the segment is the one the predicate gives for one of the ways the
\* doubles of the table can lie.)
C4_SegmentsIndependent ==
    Ran("identify_problem_areas") =>
        /\ \A i \in DOMAIN df :
              LET r == df[i]
              IN  /\ i \in Range(problems.slow_moving)
                         <=> /\ r.inventory_days.num > 45 * r.inventory_days.den
                             /\ r.turnover_ratio < 3000
                  /\ i \in Range(problems.dead_stock)
                         <=> /\ r.inventory_days.num > 90 * r.inventory_days.den
                             /\ r.units_sold <= 1
        /\ \E bits \in LastBits(df) :
              \E q30 \in ScoreQuantile(df, bits, 3, 10) :
                 \A i \in DOMAIN df :
                    i \in Range(problems.overstocked)
                       <=> /\ GtQ(df[i].overstock_units,
                                  Quantile(Column(df, AllRows(df), "overstock_units"), 4, 5))
                           /\ ScoreLtQ(df[i], bits, q30)

\* the segments have been computed, and one row is in all three while
\* another row is in none
C4_Witness ==
    /\ Ran("identify_problem_areas")
    /\ \E i \in DOMAIN df :
          /\ i \in Range(problems.slow_moving)
          /\ i \in Range(problems.dead_stock)
          /\ i \in Range(problems.overstocked)
    /\ \E i \in DOMAIN df :
          /\ i \notin Range(problems.slow_moving)
          /\ i \notin Range(problems.dead_stock)
          /\ i \notin Range(problems.overstocked)

\* C5, as stated: when the table of identify_problem_areas has no rows, the
\* quantile computation fails with an error that reaches the caller.
C5_EmptyTableRaises ==
    (Ran("identify_problem_areas") /\ Len(df) = 0)
        => "identify_problem_areas" \in failed

\* C6, as stated: when an analysis step of the run fails, every other
\* analysis step of the run is still executed.
C6_StepsDoNotCascade ==
    (pc = "crashed" /\ failed # {})
        => \A step \in Range(AnalysisSteps) \ failed : Ran(step)

\* C7, as stated: best and worst region, and best and worst season, are each
\* the first group in sorted group order among the groups that hold the
\* extreme mean efficiency_score.
C7_FirstGroupWinsTies ==
    (Ran("generate_strategic_recommendations")
         /\ "generate_strategic_recommendations" \notin failed) =>
        LET rp == recs.regional_performance
            sp == SeasonalMeans(df)
        IN  /\ \A g \in DOMAIN rp :
                  (/\ \A h \in DOMAIN rp : rp[h].efficiency_score <= rp[g].efficiency_score
                   /\ \A h \in 1..(g - 1) : rp[h].efficiency_score # rp[g].efficiency_score)
                      => recs.best_region = rp[g].key[1]
            /\ \A g \in DOMAIN rp :
                  (/\ \A h \in DOMAIN rp : rp[h].efficiency_score >= rp[g].efficiency_score
                   /\ \A h \in 1..(g - 1) : rp[h].efficiency_score # rp[g].efficiency_score)
                      => recs.worst_region = rp[g].key[1]
            /\ \A g \in DOMAIN sp :
                  (/\ \A h \in DOMAIN sp : ~MeanLess(sp[g], sp[h])
                   /\ \A h \in 1..(g - 1) : MeanLess(sp[h], sp[g]))
                      => recs.best_season = sp[g].key[1]
            /\ \A g \in DOMAIN sp :
                  (/\ \A h \in DOMAIN sp : ~MeanLess(sp[h], sp[g])
                   /\ \A h \in 1..(g - 1) : MeanLess(sp[g], sp[h]))
                      => recs.worst_season = sp[g].key[1]

\* the sum of column f over the groups of a grouped table t
GroupTotal(t, f) == SumSeq([g \in 1..Len(t) |-> t[g][f]])

\* the sum of column f over the rows idxs of the DataFrame
TableTotal(idxs, f) == SumSeq(Column(df, idxs, f))

\* C8, as stated: for every group-by and every summed column, the sum of
\* the per-group sums reported equals the sum of the column over the table
\* that was grouped (net_revenue is reported in hundredths by
\* identify_problem_areas, in thousandths by the others, and held in 1/10^4).
C8_PartitionSumReported ==
    /\ Ran("identify_problem_areas") =>
          /\ problems.slow_moving # <<>> =>
                /\ GroupTotal(problems.category_analysis, "Total_Overstock")
                       = TableTotal(problems.slow_moving, "overstock_units")
                /\ 100 * GroupTotal(problems.category_analysis, "Total_Revenue")
                       = TableTotal(problems.slow_moving, "net_revenue")
          /\ problems.overstocked # <<>> =>
                /\ GroupTotal(problems.region_analysis, "Total_Overstock")
                       = TableTotal(problems.overstocked, "overstock_units")
                /\ 100 * GroupTotal(problems.region_analysis, "Lost_Revenue")
                       = TableTotal(problems.overstocked, "net_revenue")
    /\ Ran("seasonal_analysis") =>
          /\ GroupTotal(seasonal, "units_sold") = TableTotal(AllRows(df), "units_sold")
          /\ GroupTotal(seasonal, "overstock_units")
                 = TableTotal(AllRows(df), "overstock_units")
          /\ 10 * GroupTotal(seasonal, "net_revenue")
                 = TableTotal(AllRows(df), "net_revenue")
    /\ (Ran("generate_strategic_recommendations") /\ Len(df) > 0) =>
          /\ GroupTotal(recs.category_performance, "overstock_units")
                 = TableTotal(AllRows(df), "overstock_units")
          /\ 10 * GroupTotal(recs.category_performance, "net_revenue")
                 = TableTotal(AllRows(df), "net_revenue")
          /\ 10 * GroupTotal(recs.regional_performance, "net_revenue")
                 = TableTotal(AllRows(df), "net_revenue")

\* C8, amended: for the integer columns units_sold and overstock_units the
\* sum of the per-group sums reported equals the sum of the column over the
\* table that was grouped, for every grouping key.  The per-group sums of
\* net_revenue are reported rounded, to 2 decimals by identify_problem_areas
\* and to 3 decimals by the others, so their sum is within half a unit of
\* the last reported decimal per group of the table's sum, and need not
\* equal it.
C8_PartitionSumRounded ==
    /\ Ran("identify_problem_areas") =>
          /\ problems.slow_moving # <<>> =>
                /\ GroupTotal(problems.category_analysis, "Total_Overstock")
                       = TableTotal(problems.slow_moving, "overstock_units")
                /\ GroupTotal(problems.category_analysis, "Count")
                       = Len(problems.slow_moving)
                /\ Abs(100 * GroupTotal(problems.category_analysis, "Total_Revenue")
                           - TableTotal(problems.slow_moving, "net_revenue"))
                       <= 50 * Len(problems.category_analysis)
          /\ problems.overstocked # <<>> =>
                /\ GroupTotal(problems.region_analysis, "Total_Overstock")
                       = TableTotal(problems.overstocked, "overstock_units")
                /\ GroupTotal(problems.region_analysis, "Count")
                       = Len(problems.overstocked)
                /\ Abs(100 * GroupTotal(problems.region_analysis, "Lost_Revenue")
                           - TableTotal(problems.overstocked, "net_revenue"))
                       <= 50 * Len(problems.region_analysis)
    /\ Ran("seasonal_analysis") =>
          /\ GroupTotal(seasonal, "units_sold") = TableTotal(AllRows(df), "units_sold")
          /\ GroupTotal(seasonal, "overstock_units")
                 = TableTotal(AllRows(df), "overstock_units")
          /\ Abs(10 * GroupTotal(seasonal, "net_revenue")
                     - TableTotal(AllRows(df), "net_revenue"))
                 <= 5 * Len(seasonal)
    /\ (Ran("generate_strategic_recommendations") /\ Len(df) > 0) =>
          /\ GroupTotal(recs.category_performance, "overstock_units")
                 = TableTotal(AllRows(df), "overstock_units")
          /\ Abs(10 * GroupTotal(recs.category_performance, "net_revenue")
                     - TableTotal(AllRows(df), "net_revenue"))
                 <= 5 * Len(recs.category_performance)
          /\ Abs(10 * GroupTotal(recs.regional_performance, "net_revenue")
                     - TableTotal(AllRows(df), "net_revenue"))
                 <= 5 * Len(recs.regional_performance)

\* the slow-moving rows fall in two categories whose reported revenues do
\* not add up to the revenue of the slow-moving rows, and the seasonal table
\* has been computed with several groups
C8_Witness ==
    /\ Ran("seasonal_analysis")
    /\ Len(seasonal) > 1
    /\ Len(problems.category_analysis) = 2
    /\ 100 * GroupTotal(problems.category_analysis, "Total_Revenue")
           # TableTotal(problems.slow_moving, "net_revenue")

\* the rows of d in the order p: row i of the result is row p[i] of d
Permuted(d, p) == [i \in 1..Len(d) |-> d[p[i]]]

\* C9: the rows of the Overstocked segment are the same for every
\* permutation of the table's rows.
C9_OverstockedOrderInvariant ==
    Ran("identify_problem_areas") =>
        \A p \in Permutations(DOMAIN df) :
            {{p[j] : j \in Range(o)} : o \in Overstocked(Permuted(df, p))}
                = {Range(problems.overstocked)}

\* the segment has been computed over three rows that are not in ascending
\* order of overstock_units, and it is neither empty nor everything
C9_Witness ==
    /\ Ran("identify_problem_areas")
    /\ Len(df) = 3
    /\ df[1].overstock_units > df[2].overstock_units
    /\ df[3].efficiency_score > df[2].efficiency_score
    /\ problems.overstocked # <<>>

\* C10: for each of the three tested pairs, the Pearson test is reported iff
\* more than 10 rows remain after dropping the rows with a missing value in
\* either column: skipped with exactly 10 paired rows, reported with 11; a
\* skipped pair raises no error.
C10_TestIffMoreThanTen ==
    Ran("correlation_analysis") =>
        /\ \A n \in DOMAIN relationships_to_test :
              LET pair == relationships_to_test[n]
                  paired == {i \in DOMAIN df :
                                pair[1] \in DOMAIN df[i] /\ pair[2] \in DOMAIN df[i]}
              IN  /\ pair \in Range(corr_tests) <=> Cardinality(paired) > 10
                  /\ Cardinality(paired) = 10 => pair \notin Range(corr_tests)
                  /\ Cardinality(paired) = 11 => pair \in Range(corr_tests)
        /\ "correlation_analysis" \notin failed

\* the analysis has run on exactly 10 rows and reported no test
C10_Witness ==
    /\ Ran("correlation_analysis")
    /\ Len(df) = 10
    /\ corr_tests = <<>>

\* the derived columns of calculate_inventory_metrics are in the row
HasMetrics(r) == "inventory_days" \in DOMAIN r

\* a < b for two quotients [num, den] with positive denominators
DaysLess(a, b) == a.num * b.den < b.num * a.den

\* C11: for fixed inventory_level >= 1, inventory_days is strictly
\* decreasing in units_sold over units_sold >= 0: the value computed for a
\* row is below the value for every smaller units_sold and above the value
\* for every larger one; and for units_sold = 0 it is finite and positive.
C11_InventoryDaysDecreasing ==
    \A i \in DOMAIN df :
        LET r == df[i]
        IN  (HasMetrics(r) /\ r.inventory_level >= 1 /\ r.inventory_level <= MaxInv) =>
                /\ r.inventory_days.den > 0
                /\ r.inventory_days.num > 0
                /\ \A u \in 0..(MaxUnits + 1) :
                      LET other == InventoryDays([r EXCEPT !.units_sold = u])
                      IN  /\ u > r.units_sold => DaysLess(other, r.inventory_days)
                          /\ u < r.units_sold => DaysLess(r.inventory_days, other)
                          /\ u = r.units_sold => other = r.inventory_days

\* the metrics of a row without sales and of a row with sales are computed
C11_Witness ==
    \E i \in DOMAIN df :
        /\ HasMetrics(df[i])
        /\ df[i].inventory_level = 2
        /\ df[i].units_sold = 0
        /\ df[i].inventory_days = [num |-> 600, den |-> 1]

\* C12: every row with units_sold = 0 and inventory_level >= 1 gets
\* turnover_ratio = 0, profit_margin = 0, inventory_days = 300 *
\* inventory_level and inventory_category Dead Stock, and is a row of both
\* the dead_stock and the slow_moving segment.
C12_NoSalesRow ==
    Ran("identify_problem_areas") =>
        \A i \in DOMAIN df :
            LET r == df[i]
            IN  (r.units_sold = 0 /\ r.inventory_level >= 1) =>
                    /\ r.turnover_ratio = 0
                    /\ r.profit_margin = 0
                    /\ r.inventory_days.den > 0
                    /\ r.inventory_days.num
                           = 300 * r.inventory_level * r.inventory_days.den
                    /\ r.inventory_category = "Dead Stock"
                    /\ i \in Range(problems.dead_stock)
                    /\ i \in Range(problems.slow_moving)

\* the segments have been computed over a row without sales that holds one
\* unit, at a discounted price
C12_Witness ==
    /\ Ran("identify_problem_areas")
    /\ \E i \in DOMAIN df :
          /\ df[i].units_sold = 0
          /\ df[i].inventory_level = 1
          /\ df[i].discount = 15
          /\ i \in Range(problems.dead_stock)
          /\ i \in Range(problems.slow_moving)

\* a step leaves the rows, columns and values of self.df as they were
TableKept == df' = df

\* Each segment that identify_problem_areas has returned holds the rows the
\* table has at the positions selected, in a data block of its own: it
\* shares its data neither with self.df nor with another segment.
SegmentsAreCopies ==
    /\ \A name \in SegmentNames : segments[name].data # TableFrame(df).data
    /\ Ran("identify_problem_areas") =>
          \A name \in SegmentNames :
             /\ segments[name].rows
                   = [j \in 1..Len(problems[name]) |-> df[problems[name][j]]]
             /\ \A other \in SegmentNames \ {name} :
                   segments[name].data # segments[other].data

C14_CorrelationLabel ==
    corr_out # "unset" =>
        LET a == Abs(corr_in)
        IN  /\ corr_out \in {"Strong", "Moderate", "Weak", "Very Weak"}
            /\ corr_out = "Strong" <=> 10 * a >= 7 * CorrDen
            /\ corr_out = "Moderate" <=> (3 * CorrDen <= 10 * a /\ 10 * a < 7 * CorrDen)
            /\ corr_out = "Weak" <=> (CorrDen <= 10 * a /\ 10 * a < 3 * CorrDen)
            /\ corr_out = "Very Weak" <=> 10 * a < CorrDen
            /\ corr_out = InterpretCorrelation(-corr_in, CorrDen)

\* the coefficient -0.7 has been labelled, and is Strong
C14_Witness ==
    /\ corr_in < 0
    /\ 10 * corr_in = -(7 * CorrDen)
    /\ corr_out = "Strong"

\* the steps of process_retail_data are called in the order of ProcSteps,
\* and a step is called only if every earlier step succeeded
StepsInOrder ==
    /\ Len(p_steps) <= Len(ProcSteps)
    /\ p_steps = SubSeq(ProcSteps, 1, Len(p_steps))
    /\ \A n \in 1..Len(p_steps) : \A m \in 1..(n - 1) : ProcSteps[m] \in p_ok

FirstSixSucceeded == \A n \in 1..6 : ProcSteps[n] \in p_ok

\* C15, as stated: process_retail_data runs its steps in the fixed order, a
\* step is executed only if every earlier step succeeded, and the call
\* returns True iff the first six steps all succeeded, whatever failure
\* happens inside the summary report.
C15_TrueIffSixSteps ==
    /\ StepsInOrder
    /\ p_returned # "none" => (p_returned = "True" <=> FirstSixSucceeded)

\* C15, amended: process_retail_data runs its steps in the fixed order, a
\* step is executed only if every earlier step succeeded, and the call ends
\* in one of three ways.  It raises iff close_connection, called in the
\* finally clause, raises.  It returns True iff the first six steps all
\* succeeded, the summary report raised no exception other than a mysql
\* Error, and close_connection returned; a mysql Error inside the summary
\* report does not change the result.  Otherwise it returns False.
C15_TrueIffSixStepsReportAndClose ==
    /\ StepsInOrder
    /\ p_returned # "none" =>
          /\ p_returned \in {"True", "False", "raised"}
          /\ p_returned = "raised"
                 <=> p_close \in {"cursor_raised", "connection_raised"}
          /\ p_returned = "True"
                 <=> /\ FirstSixSucceeded
                     /\ p_report # "other_exception"
                     /\ p_close = "ok"
          /\ (p_report = "mysql_error" /\ p_close = "ok") => p_returned = "True"

\* the call has returned False after six successful steps, a report that
\* raised an exception which is no mysql Error, and a close_connection that
\* returned
C15_Witness ==
    /\ p_returned = "False"
    /\ FirstSixSucceeded
    /\ p_report = "other_exception"
    /\ p_close = "ok"
    /\ Len(p_steps) = 7

\* C16: for every row count N >= 0 and batch_size >= 1, the batches
\* insert_data_batch sends are consecutive and disjoint, hold between 1 and
\* batch_size rows each and follow the original order of the rows; each
\* batch is committed before the next one is built; and when the call
\* returns True (no database error occurred) the batches cover the rows
\* 0..N-1, every row is inserted exactly once and inserted_records = N.
C16_BatchesCoverRows ==
    LET sent == Flatten(p_sent)
    IN  /\ sent = RowsFrom(0, Len(sent))
        /\ \A b \in DOMAIN p_sent :
              1 <= Len(p_sent[b]) /\ Len(p_sent[b]) <= p_batch_size
        /\ p_pc = "built" =>
              /\ p_pending = <<>>
              /\ p_committed = sent
              /\ p_batch # <<>>
              /\ p_batch[1] = Len(sent)
        /\ p_insert = "True" =>
              /\ sent = RowsFrom(0, p_total)
              /\ p_committed = sent
              /\ p_pending = <<>>
              /\ p_inserted = p_total
        /\ (p_pc = "insert_returned" /\ p_insert = "False") => Len(sent) > 0

\* five rows have been inserted in batches of two, the last batch holding
\* one row
C16_Witness ==
    /\ p_insert = "True"
    /\ p_total = 5
    /\ p_batch_size = 2
    /\ p_sent = <<<<0, 1>>, <<2, 3>>, <<4>>>>

\* a mysql Error has been raised in the try of insert_data_batch: by
\* executemany or by commit of the batch sent last, batch Len(p_sent) - 1
DatabaseError == p_error = "mysql_error"

\* the table holds exactly the first k * batch_size rows of the input, the
\* rows of the batches 0..k-1
HoldsBatchesBefore(k) ==
    /\ p_committed = RowsFrom(0, k * p_batch_size)
    /\ p_committed = Flatten(SubSeq(p_sent, 1, k))
    /\ k >= 1 => p_committed # <<>>

\* C18, as stated: if the database raises an error while batch k (0-based)
\* is inserted, insert_data_batch returns False, the rollback removes rows
\* of batch k only, and the table is left holding exactly the first
\* k * batch_size rows of the input: the rows of the batches 0..k-1 stay
\* committed.
C18_FalseAndEarlierBatchesStay ==
    DatabaseError =>
        LET k == Len(p_sent) - 1
        IN  /\ p_insert = "False"
            /\ p_pending = <<>>
            /\ HoldsBatchesBefore(k)

\* C18, amended: if the database raises an error while batch k (0-based) is
\* inserted, the handler calls rollback().  When rollback() returns,
\* insert_data_batch returns False and no row of batch k is left.  When
\* rollback() itself raises, insert_data_batch raises instead of returning
\* False, and the rows of batch k that were inserted stay in the open
\* transaction, uncommitted.  In both cases the table is left holding
\* exactly the first k * batch_size rows of the input: the rows of the
\* batches 0..k-1 stay committed.
C18_EarlierBatchesStay ==
    DatabaseError =>
        LET k == Len(p_sent) - 1
        IN  /\ k >= 0
            /\ p_pc = "insert_returned"
            /\ p_rollback \in {"ok", "raised"}
            /\ p_insert = "False" <=> p_rollback = "ok"
            /\ p_insert = "raised" <=> p_rollback = "raised"
            /\ p_rollback = "ok" => p_pending = <<>>
            /\ \E n \in 0..Len(p_sent[k + 1]) :
                  p_pending = SubSeq(p_sent[k + 1], 1, n)
            /\ HoldsBatchesBefore(k)

\* the third batch of two rows has failed with a mysql Error after one of
\* its rows was inserted, rollback() has raised, and four rows are committed
C18_Witness ==
    /\ p_error = "mysql_error"
    /\ p_rollback = "raised"
    /\ p_insert = "raised"
    /\ p_batch_size = 2
    /\ Len(p_sent) = 3
    /\ p_pending = <<4>>
    /\ p_committed = <<0, 1, 2, 3>>

\* load_data has returned or raised
LoadDataEnded == pc \notin {"start", "idle", "cut", "interpret"}

\* the connection load_data opened is closed once load_data has ended
AnalyticsConnectionClosed == LoadDataEnded => conn # "open"

\* the connection process_retail_data opened is closed once it has returned
\* or raised
ProcessorConnectionClosed == p_pc = "returned" => p_conn # "open"

\* C17, as stated: every database connection opened by process_retail_data
\* or by load_data is closed by the time that call returns or raises, on
\* every path: success, a failing step, a database error, and any other
\* exception raised while the connection is open.
C17_ConnectionsClosed ==
    /\ AnalyticsConnectionClosed
    /\ ProcessorConnectionClosed

\* C19: for every row with integer inventory_level >= 1 and units_sold >= 0,
\* inventory_days is strictly positive and never exactly 15, 30 or 60, so
\* the row gets exactly one of the four inventory categories, and the same
\* one under left-closed and under right-closed bin edges.
C19_NeverOnBinEdge ==
    \A i \in DOMAIN df :
        LET r == df[i]
            days == r.inventory_days
        IN  (HasMetrics(r) /\ r.inventory_level >= 1 /\ r.units_sold >= 0) =>
                /\ days.den > 0
                /\ days.num > 0
                /\ \A n \in 2..Len(CutBins) : days.num # CutBins[n] * days.den
                /\ r.inventory_category \in Range(CutLabels)
                /\ r.inventory_category = CutLeftClosed(days.num, days.den)
                /\ r.inventory_category = Cut(days.num, days.den)

\* the metrics are computed for a row just below the edge 15 (300/21 days),
\* and for it the category is Fast Moving
C19_Witness ==
    \E i \in DOMAIN df :
        /\ HasMetrics(df[i])
        /\ df[i].inventory_level = 1
        /\ df[i].units_sold = 2
        /\ df[i].inventory_category = "Fast Moving"

\* C20: every row of the dead_stock segment is a row of the slow_moving
\* segment and has inventory_category Dead Stock; every row of the
\* slow_moving segment has inventory_category Slow Moving or Dead Stock.
C20_DeadStockWithinSlowMoving ==
    Ran("identify_problem_areas") =>
        /\ \A i \in Range(problems.dead_stock) :
              /\ i \in Range(problems.slow_moving)
              /\ df[i].inventory_category = "Dead Stock"
        /\ \A i \in Range(problems.slow_moving) :
              df[i].inventory_category \in {"Slow Moving", "Dead Stock"}

\* the segments are computed over a table with a dead-stock row that sold
\* one unit and a slow-moving row that is no dead stock
C20_Witness ==
    /\ Ran("identify_problem_areas")
    /\ \E i \in Range(problems.dead_stock) : df[i].units_sold = 1
    /\ \E i \in Range(problems.slow_moving) : i \notin Range(problems.dead_stock)

\* C21, as stated: for every row with inventory_level >= 1 and
\* units_sold >= 0, units_sold / inventory_level < 0.3 (the exact ratio)
\* implies inventory_days > 45, and the row is in the slow_moving segment
\* iff that ratio is below 0.3.
C21_SlowIffExactRatioLow ==
    Ran("identify_problem_areas") =>
        \A i \in DOMAIN df :
            LET r == df[i]
            IN  (r.inventory_level >= 1 /\ r.units_sold >= 0) =>
                    /\ 10 * r.units_sold < 3 * r.inventory_level
                           => r.inventory_days.num > 45 * r.inventory_days.den
                    /\ i \in Range(problems.slow_moving)
                           <=> 10 * r.units_sold < 3 * r.inventory_level

=============================================================================
